---- MODULE Spec2Model ----
(***************************************************************************)
(* Model of ts_standardscripts: the laser-tracker alignment loop           *)
(* (maintel/laser_tracker/align.py), the historical-state locators and     *)
(* the runs that use them (maintel/sync_dof.py, maintel/set_dof.py), the   *)
(* run of LowerM1M3 (maintel/m1m3/lower_m1m3.py), the functions            *)
(* format_as_list, format_grid and find_running_instances (utils.py), the  *)
(* white-light scripts (auxtel/whitelight_latiss_control.py), OfflineGroup *)
(* (offline_group.py) and ATCamTakeImage (auxtel/atcam_take_image.py).     *)
(*                                                                         *)
(* Physical quantities are integers on a fixed grid: a feedback value, a   *)
(* tolerance and a time stamp are all whole numbers of grid units.         *)
(***************************************************************************)
EXTENDS Integers, Sequences, FiniteSets, TLC

VARIABLES
    pc,                 \* position of the script's single task
    laser_status,       \* value evt_laserStatus.aget() returns
    max_iter,           \* Align.max_iter
    target,             \* Align.target
    tolerance_linear,   \* Align.tolerance_linear
    tolerance_angular,  \* Align.tolerance_angular
    n_iter,             \* loop variable of align_target
    offset,             \* last value returned by evt_offsetsPublish.next()
    corrections,        \* corrections array of the current iteration
    move_args,          \* arguments of the last hexapod offset call
    queue,              \* evt_offsetsPublish: events delivered and not yet read
    inflight,           \* events published by the tracker, not yet delivered
    published,          \* number of unsolicited events the tracker has published
    responded,          \* number of align commands the tracker has answered
    log,                \* history: the operations the script has issued, in order
    err,                \* the exception the run ended with, <<"none">> if none
    archive,            \* time stamps of the degreeOfFreedom samples in the archive
    time,               \* reference time given to get_last_issued_state
    current_start,      \* start of the window being queried
    current_end,        \* end of the window being queried
    queries,            \* history: the windows queried, in order
    result,             \* value get_last_issued_state returned, <<>> before it returns
    script,             \* the script that runs: "SyncDOF" or "SetDOF"
    day_seq,            \* self.day and self.seq are both set
    site,               \* value of the LSST_SITE environment variable, "none" if unset
    efd_ok,             \* the archive answers queries (FALSE: a query raises)
    dofs,               \* SetDOF.dofs / last_state of SyncDOF.run: the target state
    image_end_time,     \* image_end_time of run
    current_dof,        \* aggregatedDoF of the degreeOfFreedom event read by run
    dof_data,           \* value array of the offsetDOF command being filled
    sent,               \* history: value arrays of the offsetDOF commands sent
    calls,              \* history: the completed calls of get_last_issued_state
    start_time,         \* LowerM1M3.run: time.time() before lower_m1m3
    end_time,           \* LowerM1M3.run: time.time() after lower_m1m3
    elapsed_time,       \* LowerM1M3.run: end_time - start_time
    value,              \* format_as_list: argument value
    recurrences,        \* format_as_list: argument recurrences
    axis1,              \* format_grid: argument axis1
    axis2,              \* format_grid: argument axis2
    returned,           \* what the utils function called returned or raised
    min_heartbeat,      \* find_running_instances: argument min_heartbeat
    heartbeats,         \* find_running_instances: the heartbeats dict, in key order
    hb_queue,           \* evt_heartbeat: events delivered and not yet read
    indices,            \* find_running_instances: the indices returned
    config,             \* the configuration given to configure: name -> value
    attrs,              \* the attributes of the script object self: name -> value
    remote              \* what the devices behind the script's remotes hold

vars == <<pc, laser_status, max_iter, target, tolerance_linear, tolerance_angular,
          n_iter, offset, corrections, move_args, queue, inflight, published,
          responded, log, err, archive, time, current_start, current_end,
          queries, result, script, day_seq, site, efd_ok, dofs, image_end_time,
          current_dof, dof_data, sent, calls, start_time, end_time, elapsed_time,
          value, recurrences, axis1, axis2, returned, min_heartbeat, heartbeats,
          hb_queue, indices, config, attrs, remote>>

----------------------------------------------------------------------------
(* Bounds of the model *)

MaxIter == 2        \* max_iter ranges over 1..MaxIter
MaxTol == 1         \* tolerances range over 0..MaxTol
MaxStale == 1       \* unsolicited offsetsPublish events in one run

MaxDev == MaxTol + 1    \* feedback values range over -MaxDev..MaxDev

TicksPerDay == 2    \* time stamps per day of the time grid
MaxCalls == 2       \* calls of get_last_issued_state in one behaviour
MaxSamples == 2     \* samples in the archive
MaxVal == 1         \* constant state vectors have a value in 0..MaxVal
MaxClock == 12      \* time.time() returns a value in 0..MaxClock
MaxLen == 3         \* lists and strings have at most MaxLen elements
MaxHeartbeat == 2   \* min_heartbeat ranges over 1..MaxHeartbeat
MaxEvents == 4      \* heartbeat events waiting or read at any time

(* Program constants *)

Scale == 1000000    \* the 1e6 factor of the linear axes
NDof == 50          \* width of the state vector: aggregatedDoF0..49
lookback_interval_days == 1
max_lookback_days == 7

----------------------------------------------------------------------------
(* Values *)

AlignComponent == {"M2", "Camera"}
LaserStatus == {"ON", "OFF"}

Linear == {"dX", "dY", "dZ"}
Angular == {"dRX", "dRY"}
Axes == Linear \cup Angular

Vals == (0 - MaxDev)..MaxDev
Tols == 0..MaxTol

ZeroOffset == [a \in Axes |-> 0]
ZeroVec == <<0, 0, 0, 0, 0>>

Abs(x) == IF x < 0 THEN 0 - x ELSE x

NoErr == <<"none">>

----------------------------------------------------------------------------
(* The corrections of one iteration, align.py lines 174-182 *)

ExceedsOrEqual(v, tol) == Abs(v) >= tol

Exceeds(v, tol) == Abs(v) > tol

CorrectionsRescaledTest(off, tl, ta) ==
    << IF Exceeds(off.dX * Scale, tl) THEN off.dX * Scale ELSE 0,
       IF Exceeds(off.dY * Scale, tl) THEN off.dY * Scale ELSE 0,
       IF Exceeds(off.dZ * Scale, tl) THEN off.dZ * Scale ELSE 0,
       IF Exceeds(off.dRX, ta) THEN off.dRX ELSE 0,
       IF Exceeds(off.dRX, ta) THEN off.dRY ELSE 0 >>

CorrectionsUnthresholded(off, tl, ta) ==
    << off.dX * Scale, off.dY * Scale, off.dZ * Scale, off.dRX, off.dRY >>

Corrections(off, tl, ta) ==
    << IF Exceeds(off.dX, tl) THEN off.dX * Scale ELSE 0,
       IF Exceeds(off.dY, tl) THEN off.dY * Scale ELSE 0,
       IF Exceeds(off.dZ, tl) THEN off.dZ * Scale ELSE 0,
       IF Exceeds(off.dRX, ta) THEN off.dRX ELSE 0,
       IF Exceeds(off.dRX, ta) THEN off.dRY ELSE 0 >>

AnyCorrection(c) == \E i \in 1..Len(c) : c[i] # 0

Negated(c) == [i \in 1..Len(c) |-> 0 - c[i]]

AlignFuncCamera(t) == "offset_camera_hexapod"

(* get_align_func, align.py lines 134-142 *)
AlignFunc(t) ==
    IF t = "M2" THEN "offset_m2_hexapod"
    ELSE IF t = "Camera" THEN "offset_camera_hexapod"
    ELSE "invalid"

----------------------------------------------------------------------------
(* History of issued operations.  iter is the 1-based iteration (n_iter+1), *)
(* tag is the number of align commands that had been issued when the event  *)
(* that a read consumed was published, within tells whether that reading    *)
(* had every axis within its tolerance, hexapod names the offset function   *)
(* a move was sent to.                                                      *)

Entry(op, iter, tag, within, hexapod) ==
    [op |-> op, iter |-> iter, tag |-> tag, within |-> within, hexapod |-> hexapod]

Op(op, iter) == Entry(op, iter, 0 - 1, FALSE, "none")

Count(op) == Cardinality({i \in 1..Len(log) : log[i].op = op})

Within(off, tl, ta) ==
    /\ \A a \in Linear : Abs(off[a]) <= tl
    /\ \A a \in Angular : Abs(off[a]) <= ta

(* Readings the tracker reports inside the loop: all axes zero, one axis   *)
(* at the largest tolerance or beyond every tolerance, or all axes beyond. *)
OnlyAxis(a, v) == [b \in Axes |-> IF b = a THEN v ELSE 0]

LoopReadings ==
    {ZeroOffset, [a \in Axes |-> MaxDev]}
        \cup {OnlyAxis(a, MaxTol) : a \in Axes}
        \cup {OnlyAxis(a, MaxDev) : a \in Axes}

syncVars == <<script, day_seq, site, efd_ok, dofs, image_end_time, current_dof,
              dof_data, sent>>
locVars == <<archive, time, current_start, current_end, queries, result, calls>>
funcVars == <<start_time, end_time, elapsed_time, value, recurrences, axis1, axis2,
              returned, min_heartbeat, heartbeats, hb_queue, indices>>
utilVars == <<funcVars, config, attrs, remote>>
cfgVars == <<laser_status, max_iter, target, tolerance_linear, tolerance_angular>>
chanVars == <<queue, inflight, published, responded>>
iterVars == <<n_iter, offset, corrections, move_args>>

----------------------------------------------------------------------------
(* Align.run *)

(* A Python value held by a variable of run: an array of numbers, or the  *)
(* coroutine object that calling an async function without await returns. *)
Array(v) == [kind |-> "array", val |-> v]
Coroutine(fn) == [kind |-> "coroutine", val |-> <<fn>>]
NoValue == [kind |-> "None", val |-> <<>>]

Const(c, n) == [i \in 1..n |-> c]
Ramp(n) == [i \in 1..n |-> i]

(* A Python value of the utils functions: a number, a string of some      *)
(* length, or a list of numbers and strings; val holds the number, the     *)
(* characters, or the elements.                                            *)
Scalar(x) == [kind |-> "scalar", val |-> <<x>>]
Str(chars) == [kind |-> "str", val |-> chars]
List(elems) == [kind |-> "list", val |-> elems]

(* What a call gave: nothing yet, the values returned, or the exception *)
NotReturned == [kind |-> "none", exc |-> "none", val |-> <<>>]
Return(vs) == [kind |-> "return", exc |-> "none", val |-> vs]
Raise(e) == [kind |-> "raise", exc |-> e, val |-> <<>>]

(* An object that has no attribute *)
NoAttrs == <<>>

(* hasattr(obj, name) *)
HasAttr(obj, name) == name \in DOMAIN obj

FuncIdle ==
    /\ start_time = 0
    /\ end_time = 0
    /\ elapsed_time = 0
    /\ value = NoValue
    /\ recurrences = 0
    /\ axis1 = NoValue
    /\ axis2 = NoValue
    /\ returned = NotReturned
    /\ min_heartbeat = 0
    /\ heartbeats = <<>>
    /\ hb_queue = <<>>
    /\ indices = <<>>

UtilIdle ==
    /\ FuncIdle
    /\ attrs = NoAttrs
    /\ remote = NoAttrs

SyncIdle ==
    /\ script = "none"
    /\ day_seq = FALSE
    /\ site = "none"
    /\ efd_ok = TRUE
    /\ dofs = NoValue
    /\ image_end_time = NoValue
    /\ current_dof = <<>>
    /\ dof_data = <<>>
    /\ sent = <<>>

LocatorIdle ==
    /\ archive = {}
    /\ time = 0
    /\ current_start = 0
    /\ current_end = 0
    /\ queries = <<>>
    /\ result = <<>>
    /\ calls = <<>>

InitAlign ==
    /\ pc = "check_laser"
    /\ LocatorIdle
    /\ SyncIdle
    /\ UtilIdle
    /\ config = NoAttrs
    /\ laser_status \in LaserStatus
    /\ max_iter \in 1..MaxIter
    /\ target \in AlignComponent
    /\ tolerance_linear \in Tols
    /\ tolerance_angular \in Tols
    /\ n_iter = 0
    /\ offset = ZeroOffset
    /\ corrections = ZeroVec
    /\ move_args = ZeroVec
    /\ queue = <<>>
    /\ inflight = <<>>
    /\ published = 0
    /\ responded = 0
    /\ log = <<>>
    /\ err = NoErr

CheckLaserStatusIgnored ==
    /\ pc = "check_laser"
    /\ pc' = "checkpoint_start"
    /\ log' = Append(log, Op("laser_status", 0))
    /\ UNCHANGED <<utilVars, syncVars, locVars, cfgVars, chanVars, iterVars, err>>

(* check_laser_status_ok: the status is read and compared with ON *)
CheckLaserStatus ==
    /\ pc = "check_laser"
    /\ IF laser_status # "ON"
       THEN /\ pc' = "failed"
            /\ err' = <<"RuntimeError", "Laser status", laser_status>>
       ELSE /\ pc' = "checkpoint_start"
            /\ err' = err
    /\ log' = Append(log, Op("laser_status", 0))
    /\ UNCHANGED <<utilVars, syncVars, locVars, cfgVars, chanVars, iterVars>>

(* evt_laserStatus.aget(timeout=timeout_std) finds no sample in time *)
LaserStatusTimeout ==
    /\ pc = "check_laser"
    /\ pc' = "failed"
    /\ err' = <<"TimeoutError", "laserStatus">>
    /\ log' = Append(log, Op("laser_timeout", 0))
    /\ UNCHANGED <<utilVars, syncVars, locVars, cfgVars, chanVars, iterVars>>

(* checkpoint("Starting alignment procedure."), then align_target begins *)
CheckpointStart ==
    /\ pc = "checkpoint_start"
    /\ log' = Append(log, Op("checkpoint_start", 0))
    /\ n_iter' = 0
    /\ pc' = IF AlignFunc(target) = "invalid" THEN "failed" ELSE "loop"
    /\ err' = IF AlignFunc(target) = "invalid"
              THEN <<"RuntimeError", "Invalid target", target>> ELSE err
    /\ UNCHANGED <<utilVars, syncVars, locVars, cfgVars, chanVars, offset, corrections, move_args>>

FlushOffByOne ==
    /\ pc = "loop"
    /\ n_iter <= max_iter
    /\ queue' = <<>>
    /\ log' = Append(log, Op("flush", n_iter + 1))
    /\ pc' = "send"
    /\ UNCHANGED <<utilVars, syncVars, locVars, cfgVars, inflight, published, responded, iterVars, err>>

FlushOmitted ==
    /\ pc = "loop"
    /\ n_iter < max_iter
    /\ pc' = "send"
    /\ UNCHANGED <<utilVars, syncVars, locVars, cfgVars, chanVars, iterVars, log, err>>

(* loop head with n_iter in range(max_iter): evt_offsetsPublish.flush() *)
Flush ==
    /\ pc = "loop"
    /\ n_iter < max_iter
    /\ queue' = <<>>
    /\ log' = Append(log, Op("flush", n_iter + 1))
    /\ pc' = "send"
    /\ UNCHANGED <<utilVars, syncVars, locVars, cfgVars, inflight, published, responded, iterVars, err>>

ExhaustedSilently ==
    /\ pc = "loop"
    /\ n_iter >= max_iter
    /\ pc' = "checkpoint_aligned"
    /\ UNCHANGED <<utilVars, syncVars, locVars, cfgVars, chanVars, iterVars, log, err>>

(* the range is used up: raise RuntimeError naming target and max_iter *)
Exhausted ==
    /\ pc = "loop"
    /\ n_iter >= max_iter
    /\ err' = <<"RuntimeError", "Failed to align", target, max_iter>>
    /\ pc' = "failed"
    /\ UNCHANGED <<utilVars, syncVars, locVars, cfgVars, chanVars, iterVars, log>>

(* cmd_align.set_start(target, timeout=timeout_align): the command is sent *)
SendAlign ==
    /\ pc = "send"
    /\ log' = Append(log, Op("align", n_iter + 1))
    /\ pc' = "cmd_wait"
    /\ UNCHANGED <<utilVars, syncVars, locVars, cfgVars, chanVars, iterVars, err>>

(* the command is acknowledged as done within timeout_align *)
AlignAck ==
    /\ pc = "cmd_wait"
    /\ log' = Append(log, Op("ack", n_iter + 1))
    /\ pc' = "next"
    /\ UNCHANGED <<utilVars, syncVars, locVars, cfgVars, chanVars, iterVars, err>>

AlignTimeoutRetried ==
    /\ pc = "cmd_wait"
    /\ log' = Append(log, Op("align_timeout", n_iter + 1))
    /\ pc' = "send"
    /\ UNCHANGED <<utilVars, syncVars, locVars, cfgVars, chanVars, iterVars, err>>

(* no acknowledgement within timeout_align: set_start raises *)
AlignTimeout ==
    /\ pc = "cmd_wait"
    /\ err' = <<"TimeoutError", "align">>
    /\ log' = Append(log, Op("align_timeout", n_iter + 1))
    /\ pc' = "failed"
    /\ UNCHANGED <<utilVars, syncVars, locVars, cfgVars, chanVars, iterVars>>

ReadFeedbackCarryOver ==
    /\ pc = "next"
    /\ queue # <<>>
    /\ \E r \in LoopReadings :
        LET now == Corrections(r, tolerance_linear, tolerance_angular)
            c == [i \in 1..5 |-> now[i] + corrections[i]]
            rd == Entry("read", n_iter + 1, Head(queue),
                        Within(r, tolerance_linear, tolerance_angular), "none")
        IN  /\ offset' = r
            /\ corrections' = c
            /\ IF AnyCorrection(c)
               THEN /\ move_args' = Negated(c)
                    /\ log' = log \o <<rd, Entry("move", n_iter + 1, 0 - 1, FALSE,
                                                 AlignFunc(target))>>
                    /\ pc' = "move"
               ELSE /\ move_args' = move_args
                    /\ log' = log \o <<rd, Op("return", n_iter + 1)>>
                    /\ pc' = "checkpoint_aligned"
    /\ queue' = Tail(queue)
    /\ UNCHANGED <<utilVars, syncVars, locVars, cfgVars, inflight, published, responded, n_iter, err>>

(* evt_offsetsPublish.next(flush=False) returns the oldest queued event;   *)
(* the corrections are computed and either the hexapod offset is issued or *)
(* align_target returns.                                                   *)
ReadFeedback ==
    /\ pc = "next"
    /\ queue # <<>>
    /\ \E r \in LoopReadings :
        LET c == Corrections(r, tolerance_linear, tolerance_angular)
            rd == Entry("read", n_iter + 1, Head(queue),
                        Within(r, tolerance_linear, tolerance_angular), "none")
        IN  /\ offset' = r
            /\ corrections' = c
            /\ IF AnyCorrection(c)
               THEN /\ move_args' = Negated(c)
                    /\ log' = log \o <<rd, Entry("move", n_iter + 1, 0 - 1, FALSE,
                                                 AlignFunc(target))>>
                    /\ pc' = "move"
               ELSE /\ move_args' = move_args
                    /\ log' = log \o <<rd, Op("return", n_iter + 1)>>
                    /\ pc' = "checkpoint_aligned"
    /\ queue' = Tail(queue)
    /\ UNCHANGED <<utilVars, syncVars, locVars, cfgVars, inflight, published, responded, n_iter, err>>

(* no event within timeout_std: next raises *)
FeedbackTimeout ==
    /\ pc = "next"
    /\ queue = <<>>
    /\ err' = <<"TimeoutError", "offsetsPublish">>
    /\ log' = Append(log, Op("next_timeout", n_iter + 1))
    /\ pc' = "failed"
    /\ UNCHANGED <<utilVars, syncVars, locVars, cfgVars, chanVars, iterVars>>

(* the hexapod offset completes; the for loop advances *)
MoveDone ==
    /\ pc = "move"
    /\ log' = Append(log, Op("moved", n_iter + 1))
    /\ n_iter' = n_iter + 1
    /\ pc' = "loop"
    /\ UNCHANGED <<utilVars, syncVars, locVars, cfgVars, chanVars, offset, corrections, move_args, err>>

(* the hexapod offset raises *)
MoveFail ==
    /\ pc = "move"
    /\ err' = <<"RuntimeError", "hexapod offset">>
    /\ pc' = "failed"
    /\ UNCHANGED <<utilVars, syncVars, locVars, cfgVars, chanVars, iterVars, log>>

CancelSwallowed ==
    /\ pc \in {"cmd_wait", "next", "move"}
    /\ log' = Append(log, Op("cancel", n_iter + 1))
    /\ UNCHANGED <<pc, utilVars, syncVars, locVars, cfgVars, chanVars, iterVars, err>>

(* The script is cancelled while align_target is suspended in set_start,   *)
(* in next or in the hexapod offset: CancelledError is raised at the await *)
(* and nothing in align_target or run catches it.                          *)
Cancel ==
    /\ pc \in {"cmd_wait", "next", "move"}
    /\ err' = <<"CancelledError", "cancelled">>
    /\ log' = Append(log, Op("cancel", n_iter + 1))
    /\ pc' = "failed"
    /\ UNCHANGED <<utilVars, syncVars, locVars, cfgVars, chanVars, iterVars>>

(* checkpoint("<target> aligned with laser tracker."), run returns *)
CheckpointAligned ==
    /\ pc = "checkpoint_aligned"
    /\ log' = Append(log, Op("checkpoint_aligned", 0))
    /\ pc' = "done"
    /\ UNCHANGED <<utilVars, syncVars, locVars, cfgVars, chanVars, iterVars, err>>

(* The laser tracker answers an align command it has not answered yet by   *)
(* publishing an offsetsPublish event.  The tag of an event is the number  *)
(* of align commands the script had issued when it was published.          *)
Respond ==
    /\ pc \notin {"done", "failed"}
    /\ responded < Count("align")
    /\ responded' = responded + 1
    /\ inflight' = Append(inflight, Count("align"))
    /\ UNCHANGED <<pc, utilVars, syncVars, locVars, cfgVars, iterVars, queue, published, log, err>>

(* The laser tracker publishes an offsetsPublish event nobody in this run  *)
(* asked for: a repeated publication, or one caused by another commander.  *)
Publish ==
    /\ pc \notin {"done", "failed"}
    /\ published < MaxStale
    /\ published' = published + 1
    /\ inflight' = Append(inflight, Count("align"))
    /\ UNCHANGED <<pc, utilVars, syncVars, locVars, cfgVars, iterVars, queue, responded, log, err>>

(* The transport hands a published event to the script's read queue.  This *)
(* runs only while the script's task is suspended; between flush() and the *)
(* sending of the command the task does not yield.                         *)
Deliver ==
    /\ pc \notin {"send", "done", "failed"}
    /\ inflight # <<>>
    /\ queue' = Append(queue, Head(inflight))
    /\ inflight' = Tail(inflight)
    /\ UNCHANGED <<pc, utilVars, syncVars, locVars, cfgVars, iterVars, published, responded, log, err>>

NextAlign ==
    \/ CheckLaserStatus
    \/ LaserStatusTimeout
    \/ CheckpointStart
    \/ Flush
    \/ Exhausted
    \/ SendAlign
    \/ AlignAck
    \/ AlignTimeout
    \/ ReadFeedback
    \/ FeedbackTimeout
    \/ MoveDone
    \/ MoveFail
    \/ Cancel
    \/ CheckpointAligned
    \/ Respond
    \/ Publish
    \/ Deliver

SpecAlign == InitAlign /\ [][NextAlign]_vars

(* The steps of the script's own task.  Every await of the task returns or *)
(* raises (a timeout at the latest), so the task always takes its next     *)
(* step.                                                                   *)
ScriptStep ==
    \/ CheckLaserStatus
    \/ LaserStatusTimeout
    \/ CheckpointStart
    \/ Flush
    \/ Exhausted
    \/ SendAlign
    \/ AlignAck
    \/ AlignTimeout
    \/ ReadFeedback
    \/ FeedbackTimeout
    \/ MoveDone
    \/ MoveFail
    \/ CheckpointAligned

SpecAlignLive == SpecAlign /\ WF_vars(ScriptStep)

----------------------------------------------------------------------------
(* The corrections as a function of one reading and one tolerance pair:    *)
(* every reading and tolerance pair of the grid, then lines 174-182.       *)

InitCorr ==
    /\ pc = "corr_input"
    /\ LocatorIdle
    /\ SyncIdle
    /\ UtilIdle
    /\ config = NoAttrs
    /\ offset \in [Axes -> Vals]
    /\ tolerance_linear \in Tols
    /\ tolerance_angular \in Tols
    /\ laser_status = "ON"
    /\ max_iter = 1
    /\ target = "M2"
    /\ n_iter = 0
    /\ corrections = ZeroVec
    /\ move_args = ZeroVec
    /\ queue = <<>>
    /\ inflight = <<>>
    /\ published = 0
    /\ responded = 0
    /\ log = <<>>
    /\ err = NoErr

ComputeCorrections ==
    /\ pc = "corr_input"
    /\ corrections' = Corrections(offset, tolerance_linear, tolerance_angular)
    /\ pc' = "corr_done"
    /\ UNCHANGED <<utilVars, syncVars, locVars, cfgVars, chanVars, n_iter, offset, move_args, log, err>>

NextCorr == ComputeCorrections

SpecCorr == InitCorr /\ [][NextCorr]_vars

----------------------------------------------------------------------------------------------------------------------------------------
(* SyncDOF.get_last_issued_state, sync_dof.py lines 131-171 *)

Day == TicksPerDay
Horizon == (max_lookback_days + 4) * Day
Stamps == 0..Horizon

(* The state vector stored with the sample of time stamp t *)
SampleState(t) == [i \in 1..NDof |-> t + 1]

(* np.zeros(50) *)
ZeroState == [i \in 1..NDof |-> 0]

RECURSIVE Ascending(_)
Ascending(S) ==
    IF S = {} THEN <<>>
    ELSE LET m == CHOOSE t \in S : \A u \in S : u <= t
         IN  Append(Ascending(S \ {m}), m)

(* client.select_time_series(topic, fields, start, end): the samples of    *)
(* the window [start, end), ordered by time.                               *)
SelectTimeSeries(arch, start, end) ==
    Ascending({t \in arch : start <= t /\ t < end})

FirstRow(rows) == rows[1]

(* state.iloc[[-1]] *)
LastRow(rows) == rows[Len(rows)]

(* The archives of the model: every set of at most n time stamps *)
RECURSIVE Archives(_)
Archives(n) ==
    IF n = 0 THEN {{}}
    ELSE LET P == Archives(n - 1)
         IN  P \cup {A \cup {t} : A \in P, t \in Stamps}

AlignIdle ==
    /\ laser_status = "ON"
    /\ max_iter = 1
    /\ target = "M2"
    /\ tolerance_linear = 0
    /\ tolerance_angular = 0
    /\ n_iter = 0
    /\ offset = ZeroOffset
    /\ corrections = ZeroVec
    /\ move_args = ZeroVec
    /\ queue = <<>>
    /\ inflight = <<>>
    /\ published = 0
    /\ responded = 0
    /\ log = <<>>

alignVars == <<cfgVars, chanVars, iterVars, log>>

InitLocator ==
    /\ pc = "loc_start"
    /\ AlignIdle
    /\ SyncIdle
    /\ UtilIdle
    /\ config = NoAttrs
    /\ err = NoErr
    /\ archive \in Archives(MaxSamples)
    /\ time \in {Horizon - Day - 1, Horizon - Day}
    /\ current_start = 0
    /\ current_end = 0
    /\ queries = <<>>
    /\ result = <<>>
    /\ calls = <<>>

LocatorBeginResumed ==
    /\ pc = "loc_start"
    /\ pc' = "loc_query"
    /\ UNCHANGED <<utilVars, syncVars, alignVars, err, locVars>>

(* lines 145-149: current_end = time *)
LocatorBegin ==
    /\ pc = "loc_start"
    /\ current_end' = time
    /\ pc' = "loc_query"
    /\ UNCHANGED <<utilVars, syncVars, alignVars, err, archive, time, current_start, queries, result,
                   calls>>

LocatorQueryGapped ==
    /\ pc = "loc_query"
    /\ LET start == current_end - lookback_interval_days * Day
           state == SelectTimeSeries(archive, start, current_end)
       IN  /\ current_start' = start
           /\ queries' = Append(queries, <<start, current_end>>)
           /\ IF state # <<>>
              THEN /\ result' = SampleState(LastRow(state))
                   /\ current_end' = current_end
                   /\ pc' = "loc_done"
              ELSE /\ current_end' = start - 1
                   /\ IF time - start > max_lookback_days * Day
                      THEN /\ result' = ZeroState
                           /\ pc' = "loc_done"
                      ELSE /\ result' = result
                           /\ pc' = "loc_query"
    /\ UNCHANGED <<utilVars, syncVars, alignVars, err, archive, time, calls>>

(* one pass of the while loop, lines 152-170 *)
LocatorQuery ==
    /\ pc = "loc_query"
    /\ LET start == current_end - lookback_interval_days * Day
           state == SelectTimeSeries(archive, start, current_end)
       IN  /\ current_start' = start
           /\ queries' = Append(queries, <<start, current_end>>)
           /\ IF state # <<>>
              THEN /\ result' = SampleState(LastRow(state))
                   /\ current_end' = current_end
                   /\ pc' = "loc_done"
              ELSE /\ current_end' = start
                   /\ IF time - start > max_lookback_days * Day
                      THEN /\ result' = ZeroState
                           /\ pc' = "loc_done"
                      ELSE /\ result' = result
                           /\ pc' = "loc_query"
    /\ UNCHANGED <<utilVars, syncVars, alignVars, err, archive, time, calls>>

(* select_time_series raises *)
LocatorQueryFails ==
    /\ pc = "loc_query"
    /\ err' = <<"Exception", "select_time_series">>
    /\ pc' = "failed"
    /\ UNCHANGED <<utilVars, syncVars, alignVars, locVars>>

NextLocator ==
    \/ LocatorBegin
    \/ LocatorQuery
    \/ LocatorQueryFails

SpecLocator == InitLocator /\ [][NextLocator]_vars

----------------------------------------------------------------------------
(* The two locators, SyncDOF.get_last_issued_state (sync_dof.py lines      *)
(* 131-171) and SetDOF.get_last_issued_state (set_dof.py lines 137-165),   *)
(* called one after the other with the same reference time on the same     *)
(* archive.                                                                *)

Locators == {"SyncDOF", "SetDOF"}

InitLocators ==
    /\ pc = "loc_idle"
    /\ AlignIdle
    /\ SyncIdle
    /\ UtilIdle
    /\ config = NoAttrs
    /\ err = NoErr
    /\ archive \in Archives(MaxSamples)
    /\ time = Horizon - Day
    /\ current_start = 0
    /\ current_end = 0
    /\ queries = <<>>
    /\ result = <<>>
    /\ calls = <<>>

locatorFrame == <<utilVars, alignVars, archive, time, day_seq, site, efd_ok, dofs,
                  image_end_time, current_dof, dof_data, sent>>

(* get_last_issued_state of one of the scripts is called *)
CallLocator ==
    /\ pc = "loc_idle"
    /\ Len(calls) < MaxCalls
    /\ \E s \in Locators :
        /\ script' = s
        /\ pc' = IF s = "SyncDOF" THEN "loc_start" ELSE "set_loc_query"
    /\ queries' = <<>>
    /\ result' = <<>>
    /\ UNCHANGED <<locatorFrame, err, current_start, current_end, calls>>

(* set_dof.py lines 151-165: one query of the day before end_time *)
SetLocatorQuery ==
    /\ pc = "set_loc_query"
    /\ LET start == time - lookback_interval_days * Day
           state == SelectTimeSeries(archive, start, time)
       IN  /\ queries' = Append(queries, <<start, time>>)
           /\ result' = IF state # <<>> THEN SampleState(LastRow(state))
                        ELSE ZeroState
    /\ pc' = "loc_done"
    /\ UNCHANGED <<locatorFrame, script, err, current_start, current_end, calls>>

(* set_dof.py line 153: select_time_series raises *)
SetLocatorQueryFails ==
    /\ pc = "set_loc_query"
    /\ err' = <<"Exception", "select_time_series">>
    /\ pc' = "failed"
    /\ UNCHANGED <<utilVars, syncVars, alignVars, locVars>>

(* the call returns its value to the caller *)
LocatorReturn ==
    /\ pc = "loc_done"
    /\ calls' = Append(calls, [script |-> script, queries |-> queries,
                               result |-> result])
    /\ pc' = "loc_idle"
    /\ UNCHANGED <<locatorFrame, script, err, current_start, current_end, queries,
                   result>>

NextLocators ==
    \/ CallLocator
    \/ LocatorBegin
    \/ LocatorQuery
    \/ LocatorQueryFails
    \/ SetLocatorQuery
    \/ SetLocatorQueryFails
    \/ LocatorReturn

SpecLocators == InitLocators /\ [][NextLocators]_vars

----------------------------------------------------------------------------
(* SyncDOF.run (sync_dof.py lines 173-189) and SetDOF.run (set_dof.py      *)
(* lines 167-200)                                                          *)

EFD_SERVER_URL == {"tucson", "base", "summit"}
Sites == {"none", "summit", "elsewhere"}

(* The target state vectors a configuration can leave in SetDOF.dofs *)
ConfiguredDofs ==
    {Const(c, n) : c \in 0..MaxVal, n \in {NDof - 1, NDof, NDof + 1}}
        \cup {Ramp(n) : n \in {NDof - 1, NDof, NDof + 1}}

(* The aggregatedDoF arrays the degreeOfFreedom event can hold *)
CurrentDofs == {Const(c, NDof) : c \in 0..MaxVal} \cup {Ramp(NDof)}

(* cmd_offsetDOF.DataType(): the value array starts as zeros *)
DataType == Const(0, NDof)

AbsoluteOffset(tgt, cur) ==
    [i \in 1..NDof |-> IF i <= Len(tgt) THEN tgt[i] ELSE DataType[i]]

(* the for loop over enumerate(target): value[i] = target[i] - current[i] *)
RelativeOffset(tgt, cur) ==
    [i \in 1..NDof |-> IF i <= Len(tgt) THEN tgt[i] - cur[i] ELSE DataType[i]]

InitSync ==
    /\ pc = "sync_start"
    /\ AlignIdle
    /\ UtilIdle
    /\ err = NoErr
    /\ archive \in Archives(1)
    /\ time = Horizon - Day
    /\ current_start = 0
    /\ current_end = 0
    /\ queries = <<>>
    /\ result = <<>>
    /\ calls = <<>>
    /\ script \in {"SyncDOF", "SetDOF"}
    /\ efd_ok \in BOOLEAN
    /\ IF script = "SyncDOF"
       THEN /\ day_seq = TRUE
            /\ site = "none"
            /\ dofs = NoValue
       ELSE /\ day_seq \in BOOLEAN
            /\ site \in Sites
            /\ dofs \in {Array(v) : v \in ConfiguredDofs}
    /\ IF day_seq
       THEN config = [day |-> 1, seq |-> 1]
       ELSE config \in {[dofs |-> v] : v \in {Const(0, NDof), Ramp(NDof)}}
    /\ image_end_time = NoValue
    /\ current_dof = <<>>
    /\ dof_data = <<>>
    /\ sent = <<>>

syncFrame == <<alignVars, locVars, script, day_seq, site, efd_ok>>

(* await self.assert_feasibility() returns *)
AssertFeasibility ==
    /\ pc = "sync_start"
    /\ pc' = "sync_locate"
    /\ UNCHANGED <<utilVars, syncFrame, err, dofs, image_end_time, current_dof, dof_data, sent>>

(* await self.assert_feasibility() raises *)
FeasibilityFails ==
    /\ pc = "sync_start"
    /\ err' = <<"RuntimeError", "assert_feasibility">>
    /\ pc' = "failed"
    /\ UNCHANGED <<utilVars, syncFrame, dofs, image_end_time, current_dof, dof_data, sent>>

(* sync_dof.py lines 178-180 and set_dof.py lines 177-191: the client is   *)
(* made and get_image_time and get_last_issued_state are called without    *)
(* await, so each call only makes a coroutine object.                      *)
LocateState ==
    /\ pc = "sync_locate"
    /\ IF script = "SetDOF" /\ ~day_seq
       THEN /\ pc' = "sync_checkpoint"
            /\ UNCHANGED <<err, dofs, image_end_time>>
       ELSE IF script = "SetDOF" /\ site \notin EFD_SERVER_URL
       THEN /\ pc' = "failed"
            /\ err' = <<"RuntimeError", "Unable to connect to EFD", site>>
            /\ UNCHANGED <<dofs, image_end_time>>
       ELSE /\ pc' = "sync_checkpoint"
            /\ image_end_time' = Coroutine("get_image_time")
            /\ dofs' = Coroutine("get_last_issued_state")
            /\ err' = err
    /\ UNCHANGED <<utilVars, syncFrame, current_dof, dof_data, sent>>

(* await self.checkpoint("Setting DOF...") *)
CheckpointSetting ==
    /\ pc = "sync_checkpoint"
    /\ pc' = "sync_aget"
    /\ UNCHANGED <<utilVars, syncFrame, err, dofs, image_end_time, current_dof, dof_data, sent>>

(* evt_degreeOfFreedom.aget(timeout=STD_TIMEOUT) returns *)
ReadCurrentDof ==
    /\ pc = "sync_aget"
    /\ current_dof' \in CurrentDofs
    /\ dof_data' = DataType
    /\ pc' = "sync_fill"
    /\ UNCHANGED <<utilVars, syncFrame, err, dofs, image_end_time, sent>>

(* evt_degreeOfFreedom.aget(timeout=STD_TIMEOUT) times out *)
CurrentDofTimeout ==
    /\ pc = "sync_aget"
    /\ err' = <<"TimeoutError", "degreeOfFreedom">>
    /\ pc' = "failed"
    /\ UNCHANGED <<utilVars, syncFrame, dofs, image_end_time, current_dof, dof_data, sent>>

(* the for loop over enumerate(target) and cmd_offsetDOF.start(data):      *)
(* a coroutine object is not iterable, an index past the value array       *)
(* raises, otherwise the command is sent.                                  *)
FillAndSend ==
    /\ pc = "sync_fill"
    /\ IF dofs.kind # "array"
       THEN /\ err' = <<"TypeError", "object is not iterable", dofs.kind>>
            /\ pc' = "failed"
            /\ UNCHANGED <<dof_data, sent>>
       ELSE IF Len(dofs.val) > NDof
       THEN /\ err' = <<"IndexError", "index out of range">>
            /\ dof_data' = RelativeOffset(SubSeq(dofs.val, 1, NDof), current_dof)
            /\ pc' = "failed"
            /\ UNCHANGED sent
       ELSE /\ dof_data' = RelativeOffset(dofs.val, current_dof)
            /\ sent' = Append(sent, dof_data')
            /\ pc' = "sync_cmd"
            /\ err' = err
    /\ UNCHANGED <<utilVars, syncFrame, dofs, image_end_time, current_dof>>

(* cmd_offsetDOF.start returns *)
OffsetAck ==
    /\ pc = "sync_cmd"
    /\ pc' = "done"
    /\ UNCHANGED <<utilVars, syncFrame, err, dofs, image_end_time, current_dof, dof_data, sent>>

(* cmd_offsetDOF.start raises *)
OffsetFails ==
    /\ pc = "sync_cmd"
    /\ err' = <<"RuntimeError", "offsetDOF">>
    /\ pc' = "failed"
    /\ UNCHANGED <<utilVars, syncFrame, dofs, image_end_time, current_dof, dof_data, sent>>

NextSync ==
    \/ AssertFeasibility
    \/ FeasibilityFails
    \/ LocateState
    \/ CheckpointSetting
    \/ ReadCurrentDof
    \/ CurrentDofTimeout
    \/ FillAndSend
    \/ OffsetAck
    \/ OffsetFails

SpecSync == InitSync /\ [][NextSync]_vars

----------------------------------------------------------------------------
(* LowerM1M3.run, maintel/m1m3/lower_m1m3.py lines 70-76 *)

Clock == 0..MaxClock

InitLower ==
    /\ pc = "lower_checkpoint"
    /\ AlignIdle
    /\ LocatorIdle
    /\ SyncIdle
    /\ UtilIdle
    /\ config = NoAttrs
    /\ err = NoErr

lowerFrame == <<syncVars, locVars, cfgVars, chanVars, iterVars, value, recurrences,
                axis1, axis2, returned, min_heartbeat, heartbeats, hb_queue, indices,
                config, attrs, remote>>

(* line 71-73: the checkpoint is passed, the clock is read and lower_m1m3 *)
(* is called                                                              *)
CheckpointLowering ==
    /\ pc = "lower_checkpoint"
    /\ start_time' \in Clock
    /\ log' = log \o <<Op("checkpoint_lowering", 0), Op("lower_m1m3", 0)>>
    /\ pc' = "lower_wait"
    /\ UNCHANGED <<lowerFrame, err, end_time, elapsed_time>>

(* lines 73-76: lower_m1m3 returns, the clock is read again *)
LowerDone ==
    /\ pc = "lower_wait"
    /\ \E t \in Clock :
        /\ t >= start_time
        /\ end_time' = t
        /\ elapsed_time' = t - start_time
    /\ log' = Append(log, Op("lowered", 0))
    /\ pc' = "done"
    /\ UNCHANGED <<lowerFrame, err, start_time>>

LowerFailsRetried ==
    /\ pc = "lower_wait"
    /\ log' = log \o <<Op("lower_failed", 0), Op("lower_m1m3", 0)>>
    /\ UNCHANGED <<pc, lowerFrame, err, start_time, end_time, elapsed_time>>

(* line 73: lower_m1m3 raises; run has no handler *)
LowerFails ==
    /\ pc = "lower_wait"
    /\ log' = Append(log, Op("lower_failed", 0))
    /\ err' = <<"RuntimeError", "lower_m1m3">>
    /\ pc' = "failed"
    /\ UNCHANGED <<lowerFrame, start_time, end_time, elapsed_time>>

(* the script is cancelled while run is suspended at the checkpoint or in *)
(* lower_m1m3                                                             *)
LowerCancel ==
    /\ pc \in {"lower_checkpoint", "lower_wait"}
    /\ log' = Append(log, Op("cancel", 0))
    /\ err' = <<"CancelledError", "cancelled">>
    /\ pc' = "failed"
    /\ UNCHANGED <<lowerFrame, start_time, end_time, elapsed_time>>

NextLower ==
    \/ CheckpointLowering
    \/ LowerDone
    \/ LowerFails
    \/ LowerCancel

SpecLower == InitLower /\ [][NextLower]_vars

----------------------------------------------------------------------------
(* format_as_list, utils.py lines 88-142 *)

Scalars == {Scalar(0), Scalar(1)}
Strings == {Str(Ramp(n)) : n \in 0..MaxLen}

(* every list of at most n numbers *)
RECURSIVE ListsUpTo(_)
ListsUpTo(n) ==
    IF n = 0 THEN {<<>>}
    ELSE LET P == ListsUpTo(n - 1)
         IN  P \cup {Append(l, e) : l \in P, e \in Scalars}

PyLists == {List(l) : l \in ListsUpTo(MaxLen)}
PyValues == Scalars \cup Strings \cup PyLists

(* isinstance(value, collections.abc.Iterable), isinstance(value, str) *)
IsIterable(v) == v.kind \in {"str", "list"}
IsStr(v) == v.kind = "str"

(* [value] * recurrences *)
Repeat(v, n) == List([i \in 1..n |-> v])

FormatAsListStrIterable(val, rec) ==
    IF IsIterable(val)
    THEN IF Len(val.val) # rec THEN Raise("ValueError") ELSE Return(<<val>>)
    ELSE Return(<<Repeat(val, rec)>>)

FormatAsList(val, rec) ==
    IF IsIterable(val) /\ ~IsStr(val)
    THEN IF Len(val.val) # rec THEN Raise("ValueError") ELSE Return(<<val>>)
    ELSE Return(<<Repeat(val, rec)>>)

InitFormatAsList ==
    /\ pc = "fal_call"
    /\ AlignIdle
    /\ LocatorIdle
    /\ SyncIdle
    /\ err = NoErr
    /\ config = NoAttrs
    /\ attrs = NoAttrs
    /\ remote = NoAttrs
    /\ value \in PyValues
    /\ recurrences \in 0..MaxLen
    /\ start_time = 0
    /\ end_time = 0
    /\ elapsed_time = 0
    /\ axis1 = NoValue
    /\ axis2 = NoValue
    /\ returned = NotReturned
    /\ min_heartbeat = 0
    /\ heartbeats = <<>>
    /\ hb_queue = <<>>
    /\ indices = <<>>

CallFormatAsList ==
    /\ pc = "fal_call"
    /\ returned' = FormatAsList(value, recurrences)
    /\ pc' = "fal_done"
    /\ UNCHANGED <<syncVars, locVars, alignVars, err, start_time, end_time, elapsed_time,
                   value, recurrences, axis1, axis2, min_heartbeat, heartbeats,
                   hb_queue, indices, config, attrs, remote>>

NextFormatAsList == CallFormatAsList

SpecFormatAsList == InitFormatAsList /\ [][NextFormatAsList]_vars

----------------------------------------------------------------------------
(* format_grid, utils.py lines 145-189 *)

(* np.isscalar: true of a number and of a str, false of a list *)
IsScalar(v) == v.kind \in {"scalar", "str"}

FormatGridSwapped(a1, a2) ==
    IF IsScalar(a1) /\ IsScalar(a2)
    THEN Return(<<List(<<a1>>), List(<<a2>>)>>)
    ELSE IF IsScalar(a1)
    THEN LET r == FormatAsList(a1, Len(a2.val))
         IN  IF r.kind = "raise" THEN r ELSE Return(<<r.val[1], a2>>)
    ELSE IF IsScalar(a2)
    THEN LET r == FormatAsList(a2, Len(a1.val))
         IN  IF r.kind = "raise" THEN r ELSE Return(<<r.val[1], a1>>)
    ELSE IF Len(a1.val) # Len(a2.val)
    THEN Raise("RuntimeError")
    ELSE Return(<<a1, a2>>)

FormatGrid(a1, a2) ==
    IF IsScalar(a1) /\ IsScalar(a2)
    THEN Return(<<List(<<a1>>), List(<<a2>>)>>)
    ELSE IF IsScalar(a1)
    THEN LET r == FormatAsList(a1, Len(a2.val))
         IN  IF r.kind = "raise" THEN r ELSE Return(<<r.val[1], a2>>)
    ELSE IF IsScalar(a2)
    THEN LET r == FormatAsList(a2, Len(a1.val))
         IN  IF r.kind = "raise" THEN r ELSE Return(<<a1, r.val[1]>>)
    ELSE IF Len(a1.val) # Len(a2.val)
    THEN Raise("RuntimeError")
    ELSE Return(<<a1, a2>>)

InitFormatGrid ==
    /\ pc = "fg_call"
    /\ AlignIdle
    /\ LocatorIdle
    /\ SyncIdle
    /\ err = NoErr
    /\ config = NoAttrs
    /\ attrs = NoAttrs
    /\ remote = NoAttrs
    /\ axis1 \in PyValues
    /\ axis2 \in PyValues
    /\ value = NoValue
    /\ recurrences = 0
    /\ start_time = 0
    /\ end_time = 0
    /\ elapsed_time = 0
    /\ returned = NotReturned
    /\ min_heartbeat = 0
    /\ heartbeats = <<>>
    /\ hb_queue = <<>>
    /\ indices = <<>>

CallFormatGrid ==
    /\ pc = "fg_call"
    /\ returned' = FormatGrid(axis1, axis2)
    /\ pc' = "fg_done"
    /\ UNCHANGED <<syncVars, locVars, alignVars, err, start_time, end_time, elapsed_time,
                   value, recurrences, axis1, axis2, min_heartbeat, heartbeats,
                   hb_queue, indices, config, attrs, remote>>

NextFormatGrid == CallFormatGrid

SpecFormatGrid == InitFormatGrid /\ [][NextFormatGrid]_vars

----------------------------------------------------------------------------
(* find_running_instances, utils.py lines 212-257 *)

(* salIndex of the instances that publish heartbeats *)
SalIndex == {1, 2}

(* the heartbeats dict: a sequence of items in insertion order *)
HasKey(d, k) == \E n \in 1..Len(d) : d[n].key = k

(* lines 248-251: heartbeats[sal_index] = 1, or += 1 *)
CountHeartbeat(d, k) ==
    IF ~HasKey(d, k)
    THEN Append(d, [key |-> k, value |-> 1])
    ELSE [n \in 1..Len(d) |->
             IF d[n].key = k THEN [key |-> k, value |-> d[n].value + 1] ELSE d[n]]

(* the loop going on until no index is below min_heartbeat *)
AllBelowSome(d, m) == \E n \in 1..Len(d) : d[n].value < m

(* all([value < min_heartbeat for value in heartbeats.values()]) *)
AllBelow(d, m) == \A n \in 1..Len(d) : d[n].value < m

(* list(heartbeats.keys()) *)
Keys(d) == [n \in 1..Len(d) |-> d[n].key]

InitFind ==
    /\ pc = "fri_flush"
    /\ AlignIdle
    /\ LocatorIdle
    /\ SyncIdle
    /\ err = NoErr
    /\ config = NoAttrs
    /\ attrs = NoAttrs
    /\ remote = NoAttrs
    /\ min_heartbeat \in 1..MaxHeartbeat
    /\ heartbeats = <<>>
    /\ hb_queue = <<>>
    /\ indices = <<>>
    /\ value = NoValue
    /\ recurrences = 0
    /\ axis1 = NoValue
    /\ axis2 = NoValue
    /\ returned = NotReturned
    /\ start_time = 0
    /\ end_time = 0
    /\ elapsed_time = 0

findFrame == <<syncVars, locVars, cfgVars, chanVars, iterVars, err, start_time,
               end_time, elapsed_time, value, recurrences, axis1, axis2, returned,
               min_heartbeat, config, attrs, remote>>

(* An instance publishes a heartbeat and the remote queues it.  The log    *)
(* holds one entry per event read, so the guard bounds the events that are *)
(* waiting or read.                                                        *)
HeartbeatArrives ==
    /\ pc \in {"fri_flush", "fri_next"}
    /\ Len(hb_queue) + Len(log) < MaxEvents
    /\ \E k \in SalIndex : hb_queue' = Append(hb_queue, k)
    /\ UNCHANGED <<pc, findFrame, heartbeats, indices, log>>

(* lines 237-243: the remote has started, evt_heartbeat.flush(), and the  *)
(* while condition holds of the empty dict                                *)
FlushHeartbeats ==
    /\ pc = "fri_flush"
    /\ hb_queue' = <<>>
    /\ pc' = "fri_next"
    /\ UNCHANGED <<findFrame, heartbeats, indices, log>>

(* lines 245-251, then the while condition, then lines 255-257: next      *)
(* returns the oldest queued heartbeat and it is counted; the entry of    *)
(* the log carries the salIndex in its iter field                         *)
NextHeartbeat ==
    /\ pc = "fri_next"
    /\ hb_queue # <<>>
    /\ LET sal_index == Head(hb_queue)
           d == CountHeartbeat(heartbeats, sal_index)
       IN  /\ heartbeats' = d
           /\ log' = Append(log, Op("heartbeat", sal_index))
           /\ IF AllBelow(d, min_heartbeat)
              THEN /\ pc' = "fri_next"
                   /\ indices' = indices
              ELSE /\ pc' = "fri_done"
                   /\ indices' = Keys(d)
    /\ hb_queue' = Tail(hb_queue)
    /\ UNCHANGED findFrame

(* lines 252-257: no heartbeat within hb_timeout: break and return *)
HeartbeatTimeout ==
    /\ pc = "fri_next"
    /\ hb_queue = <<>>
    /\ indices' = Keys(heartbeats)
    /\ pc' = "fri_done"
    /\ UNCHANGED <<findFrame, heartbeats, hb_queue, log>>

NextFind ==
    \/ HeartbeatArrives
    \/ FlushHeartbeats
    \/ NextHeartbeat
    \/ HeartbeatTimeout

SpecFind == InitFind /\ [][NextFind]_vars

(* The coroutine is scheduled: flush is not awaited, and the await of     *)
(* next(timeout=hb_timeout) ends with a heartbeat or with TimeoutError.   *)
(* Nothing obliges an instance to publish.                                *)
SpecFindLive ==
    SpecFind /\ WF_vars(FlushHeartbeats \/ NextHeartbeat \/ HeartbeatTimeout)

----------------------------------------------------------------------------
(* WhiteLightControlScriptTurnOn / TurnOff, auxtel/whitelight_latiss_control.py *)

(* salobj.State *)
States == {"DISABLED", "ENABLED", "FAULT", "OFFLINE", "STANDBY"}

(* values of the chiller watchdog; 2 is RUN (line 113) *)
ChillerStates == {1, 2, 3}

(* the configurations the schema of lines 27-46 admits, defaults included *)
WhiteLightConfigs ==
    [event_timeout : {30}, lamp_power : {800, 1200}, chiller_turnon_wait : {120}]

(* what neither script of the group touches *)
scriptFrame == <<syncVars, locVars, cfgVars, chanVars, iterVars, funcVars>>

(* __init__, lines 63-67, of either subclass (lines 103-105, 126-128): the *)
(* object has the remote and the name; the device is in some state.        *)
InitWhiteLight ==
    /\ pc = "wl_configure"
    /\ AlignIdle
    /\ LocatorIdle
    /\ SyncIdle
    /\ FuncIdle
    /\ err = NoErr
    /\ config \in WhiteLightConfigs
    /\ attrs \in {[_whitelight |-> "ATWhiteLight", script_descr_name |-> n] :
                      n \in {"on", "off"}}
    /\ remote \in [summaryState : States, chillerWatchdog : ChillerStates]

(* configure, lines 76-79 *)
WhiteLightConfigure ==
    /\ pc = "wl_configure"
    /\ attrs' = [event_timeout |-> config.event_timeout,
                 lamp_power |-> config.lamp_power,
                 chiller_turnon_wait |-> config.chiller_turnon_wait] @@ attrs
    /\ pc' = "wl_run"
    /\ UNCHANGED <<scriptFrame, err, log, config, remote>>

(* run, line 86: the argument timeout=self._eventt_timeout is evaluated    *)
(* before aget is called; neither __init__ nor configure gives the object  *)
(* an attribute of that name, so the lookup raises and run ends there.     *)
WhiteLightRun ==
    /\ pc = "wl_run"
    /\ IF HasAttr(attrs, "_eventt_timeout")
       THEN /\ log' = Append(log, Op("summaryState.aget", 0))
            /\ pc' = "wl_aget"
            /\ err' = err
       ELSE /\ err' = <<"AttributeError", "_eventt_timeout">>
            /\ pc' = "failed"
            /\ log' = log
    /\ UNCHANGED <<scriptFrame, config, attrs, remote>>

NextWhiteLight ==
    \/ WhiteLightConfigure
    \/ WhiteLightRun

SpecWhiteLight == InitWhiteLight /\ [][NextWhiteLight]_vars

----------------------------------------------------------------------------
(* OfflineGroup, offline_group.py *)

(* self.components(): the names of the components of the group *)
Components == {"hexapod_1", "mtdometrajectory"}

(* the names a configuration can list: the components and another name *)
Names == Components \cup {"atdome"}

(* the lists of at most n names *)
IgnoreLists(n) == UNION {[1..m -> Names] : m \in 0..n}

(* a loop that handles one entry of the list and then stops *)
IgnoreFirstOnly(ignore, k, st) ==
    IF k > Len(ignore)
    THEN st
    ELSE IF ignore[k] \notin Components
    THEN [check |-> st.check, log |-> Append(st.log, Op("warning", k))]
    ELSE [check |-> [st.check EXCEPT ![ignore[k]] = FALSE],
          log |-> Append(st.log, Op("debug", k))]

(* lines 105-113: the for loop over config.ignore from entry k on; st     *)
(* holds group.check and the log                                          *)
RECURSIVE Ignore(_, _, _)
Ignore(ignore, k, st) ==
    IF k > Len(ignore)
    THEN st
    ELSE IF ignore[k] \notin Components
    THEN Ignore(ignore, k + 1,
                [check |-> st.check, log |-> Append(st.log, Op("warning", k))])
    ELSE Ignore(ignore, k + 1,
                [check |-> [st.check EXCEPT ![ignore[k]] = FALSE],
                 log |-> Append(st.log, Op("debug", k))])

(* __init__, lines 41-45: self.config = None; the group has a check flag  *)
(* for each component; a configuration with or without an ignore list     *)
InitOffline ==
    /\ pc = "og_configure"
    /\ AlignIdle
    /\ LocatorIdle
    /\ SyncIdle
    /\ FuncIdle
    /\ err = NoErr
    /\ config \in {NoAttrs} \cup {[ignore |-> l] : l \in IgnoreLists(MaxLen)}
    /\ attrs = [config |-> NoAttrs]
    /\ remote \in {[check |-> c] : c \in [Components -> BOOLEAN]}

(* configure, lines 96-97 *)
OfflineConfigure ==
    /\ pc = "og_configure"
    /\ attrs' = [attrs EXCEPT !.config = config]
    /\ pc' = "og_run"
    /\ UNCHANGED <<scriptFrame, err, log, config, remote>>

(* run, lines 104-115, up to the await: the loop over the ignore list and *)
(* the call of group.offline()                                            *)
OfflineRun ==
    /\ pc = "og_run"
    /\ LET st == IF HasAttr(attrs.config, "ignore")
                 THEN Ignore(attrs.config.ignore, 1, [check |-> remote.check, log |-> log])
                 ELSE [check |-> remote.check, log |-> log]
       IN  /\ remote' = [remote EXCEPT !.check = st.check]
           /\ log' = Append(st.log, Op("offline", 0))
    /\ pc' = "og_offline"
    /\ UNCHANGED <<scriptFrame, err, config, attrs>>

(* group.offline() returns *)
OfflineDone ==
    /\ pc = "og_offline"
    /\ pc' = "done"
    /\ UNCHANGED <<scriptFrame, err, log, config, attrs, remote>>

(* group.offline() raises *)
OfflineFails ==
    /\ pc = "og_offline"
    /\ err' = <<"RuntimeError", "offline">>
    /\ pc' = "failed"
    /\ UNCHANGED <<scriptFrame, log, config, attrs, remote>>

NextOffline ==
    \/ OfflineConfigure
    \/ OfflineRun
    \/ OfflineDone
    \/ OfflineFails

SpecOffline == InitOffline /\ [][NextOffline]_vars

----------------------------------------------------------------------------
(* ATCamTakeImage, auxtel/atcam_take_image.py *)

(* A Python float: a number, or not-a-number *)
Float(x) == [nan |-> FALSE, v |-> x]
NaN == [nan |-> TRUE, v |-> 0]
Floats == {Float(x) : x \in (0 - MaxVal)..MaxVal} \cup {NaN}

(* every list of at most n floats *)
RECURSIVE FloatLists(_)
FloatLists(n) ==
    IF n = 0 THEN {<<>>}
    ELSE LET P == FloatLists(n - 1)
         IN  P \cup {Append(l, e) : l \in P, e \in Floats}

(* the arguments of configure: nimages and exp_times, a float or a list   *)
(* of floats; the other arguments are stored as given                     *)
ATCamConfigs ==
    [nimages : 0..MaxLen,
     exp_times : {Scalar(x) : x \in Floats} \cup {List(l) : l \in FloatLists(MaxLen)}]

(* a < b of two floats: False when either is not-a-number *)
Less(a, b) == ~a.nan /\ ~b.nan /\ a.v < b.v

(* np.min of a non-empty list: not-a-number when the list holds one *)
NpMin(l) ==
    IF \E i \in 1..Len(l) : l[i].nan
    THEN NaN
    ELSE Float(CHOOSE m \in {l[i].v : i \in 1..Len(l)} :
                   \A i \in 1..Len(l) : m <= l[i].v)

(* lines 79-89: the exception configure raises, whether self.exp_times    *)
(* was assigned before it, and the list assigned                          *)
Validated(cfg) ==
    IF IsIterable(cfg.exp_times)
    THEN IF Len(cfg.exp_times.val) = 0
         THEN [exc |-> "ValueError", set |-> FALSE, exp_times |-> <<>>]
         ELSE [exc |-> IF Less(NpMin(cfg.exp_times.val), Float(0))
                       THEN "ValueError" ELSE "none",
               set |-> TRUE, exp_times |-> cfg.exp_times.val]
    ELSE IF cfg.nimages < 1
         THEN [exc |-> "ValueError", set |-> FALSE, exp_times |-> <<>>]
         ELSE LET l == [i \in 1..cfg.nimages |-> cfg.exp_times.val[1]]
              IN  [exc |-> IF Less(NpMin(l), Float(0)) THEN "ValueError" ELSE "none",
                   set |-> TRUE, exp_times |-> l]

(* __init__, lines 29-36 *)
InitATCam ==
    /\ pc = "at_configure"
    /\ AlignIdle
    /\ LocatorIdle
    /\ SyncIdle
    /\ FuncIdle
    /\ err = NoErr
    /\ config \in ATCamConfigs
    /\ attrs = [cmd_timeout |-> 60]
    /\ remote = NoAttrs

(* configure, lines 39-103 *)
ATCamConfigure ==
    /\ pc = "at_configure"
    /\ LET r == Validated(config)
       IN  /\ attrs' = IF r.set THEN [exp_times |-> r.exp_times] @@ attrs ELSE attrs
           /\ IF r.exc = "none"
              THEN /\ pc' = "at_next"
                   /\ err' = err
              ELSE /\ pc' = "failed"
                   /\ err' = <<r.exc, "configure">>
    /\ UNCHANGED <<scriptFrame, log, config, remote>>

(* The index of the loop of run: one more than the images asked for *)
NextExposure == Count("take_image") + 1

(* run, lines 112-120: the next entry of the list, its checkpoint, and    *)
(* the call of latiss.take_image; the entry of the log carries the index   *)
(* and, as its tag, the number of images or the exposure time             *)
ATCamExpose ==
    /\ pc = "at_next"
    /\ LET i == NextExposure
           nimages == Len(attrs.exp_times)
       IN  /\ i <= nimages
           /\ log' = log \o <<Entry("checkpoint", i, nimages, FALSE, "none"),
                               Entry("take_image", i, attrs.exp_times[i], FALSE, "none")>>
    /\ pc' = "at_take_image"
    /\ UNCHANGED <<scriptFrame, err, config, attrs, remote>>

(* latiss.take_image returns; line 121, and the loop ends after the last  *)
(* entry                                                                  *)
TakeImageDone ==
    /\ pc = "at_take_image"
    /\ pc' = IF NextExposure <= Len(attrs.exp_times) THEN "at_next" ELSE "done"
    /\ UNCHANGED <<scriptFrame, err, log, config, attrs, remote>>

(* latiss.take_image raises *)
TakeImageFails ==
    /\ pc = "at_take_image"
    /\ err' = <<"RuntimeError", "take_image">>
    /\ pc' = "failed"
    /\ UNCHANGED <<scriptFrame, log, config, attrs, remote>>

NextATCam ==
    \/ ATCamConfigure
    \/ ATCamExpose
    \/ TakeImageDone
    \/ TakeImageFails

SpecATCam == InitATCam /\ [][NextATCam]_vars

----------------------------------------------------------------------------
(* Helpers of the properties *)

AxisOf == <<"dX", "dY", "dZ", "dRX", "dRY">>

TolOf(a) == IF a \in Linear THEN tolerance_linear ELSE tolerance_angular

Reads == SelectSeq(log, LAMBDA e : e.op = "read")

CommandOps == {"flush", "align", "ack", "read", "move", "moved"}

Converged == pc \in {"checkpoint_aligned", "done"}

ExhaustionErr == <<"RuntimeError", "Failed to align", target, max_iter>>

----------------------------------------------------------------------------
(* C1: when the laser status that was read is not ON, the run has failed   *)
(* with the laser-status RuntimeError and has issued nothing: no flush, no *)
(* align command, no feedback read, no hexapod move, no iteration begun.   *)
C1_PreconditionFailure ==
    (laser_status # "ON" /\ Count("laser_status") > 0) =>
        /\ pc = "failed"
        /\ err = <<"RuntimeError", "Laser status", laser_status>>
        /\ \A i \in 1..Len(log) : log[i].op \notin CommandOps
        /\ n_iter = 0

C1_Witness ==
    /\ laser_status = "OFF"
    /\ Count("laser_status") = 1
    /\ pc = "failed"

(* C2: the correction is nonzero on an axis if and only if the absolute    *)
(* value of that same axis's feedback is strictly greater than that axis's *)
(* tolerance.                                                              *)
C2_NonzeroIffExceeds ==
    pc = "corr_done" =>
        \A i \in 1..5 :
            (corrections[i] # 0) <=> (Abs(offset[AxisOf[i]]) > TolOf(AxisOf[i]))

(* C3: a reading with every axis within the tolerance of its group, axes   *)
(* equal to the tolerance included, gives the all-zero correction vector.  *)
C3_WithinGivesZero ==
    (pc = "corr_done" /\ Within(offset, tolerance_linear, tolerance_angular)) =>
        corrections = ZeroVec

C3_Witness ==
    /\ pc = "corr_done"
    /\ tolerance_linear > 0
    /\ tolerance_angular > 0
    /\ offset.dX = 0 - tolerance_linear
    /\ offset.dY = tolerance_linear
    /\ offset.dRX = tolerance_angular
    /\ offset.dRY = 0 - tolerance_angular
    /\ corrections = ZeroVec

(* C4: when the first reading is within tolerance the loop converges on    *)
(* iteration 1: one flush, one align command, one read, no move, no error, *)
(* whatever max_iter is.                                                   *)
C4_ConvergesOnFirst ==
    (Len(Reads) >= 1 /\ Reads[1].within) =>
        /\ Count("flush") = 1
        /\ Count("align") = 1
        /\ Count("read") = 1
        /\ Count("move") = 0
        /\ Converged
        /\ n_iter = 0
        /\ err = NoErr

C4_Witness ==
    /\ pc = "done"
    /\ max_iter = MaxIter
    /\ Len(Reads) = 1
    /\ Reads[1].within
    /\ offset # ZeroOffset

(* C5: when every reading has some axis outside tolerance, a loop that     *)
(* ends without a timeout has done exactly max_iter align commands and     *)
(* max_iter reads and has failed with the exhaustion error.                *)
C5_ExhaustsAfterMaxIter ==
    (/\ Len(Reads) >= 1
     /\ \A k \in 1..Len(Reads) : ~Reads[k].within
     /\ (Converged \/ (pc = "failed" /\ err = ExhaustionErr))) =>
        /\ err = ExhaustionErr
        /\ Count("align") = max_iter
        /\ Count("read") = max_iter

(* C6: the event a read of iteration n consumes was published after the    *)
(* align command of iteration n was issued, never earlier.                 *)
C6_ReadsOwnResponse ==
    \A i \in 1..Len(log) : log[i].op = "read" => log[i].tag = log[i].iter

(* C7: within an iteration the operations are issued in the order flush,   *)
(* align command, acknowledgement, feedback read, then move or return; the *)
(* flush comes immediately before the align command of the same iteration  *)
(* and the move of iteration n has completed before the flush of n+1.      *)
C7_StepOrder ==
    \A i \in 1..Len(log) :
        LET e == log[i]
            Prev(op, n) == i > 1 /\ log[i - 1].op = op /\ log[i - 1].iter = n
        IN  /\ e.op = "align" => Prev("flush", e.iter)
            /\ e.op = "ack" => Prev("align", e.iter)
            /\ e.op = "read" => Prev("ack", e.iter)
            /\ e.op = "move" => Prev("read", e.iter)
            /\ e.op = "return" => Prev("read", e.iter)
            /\ e.op = "moved" => Prev("move", e.iter)
            /\ e.op = "flush" =>
                  IF e.iter = 1 THEN Prev("checkpoint_start", 0)
                  ELSE Prev("moved", e.iter - 1)

C7_Witness ==
    /\ Count("flush") = 2
    /\ Count("moved") = 1
    /\ Count("read") = 2

(* C8: after a timeout of the align command or of the feedback wait nothing *)
(* more is issued: the timeout is the last operation of the run, the run    *)
(* has failed with the timeout error and has not converged.                 *)
C8_TimeoutIsFatal ==
    \A i \in 1..Len(log) :
        log[i].op \in {"align_timeout", "next_timeout"} =>
            /\ i = Len(log)
            /\ pc = "failed"
            /\ err[1] = "TimeoutError"
            /\ Count("checkpoint_aligned") = 0
            /\ Count("return") = 0

C8_Witness ==
    /\ Len(log) > 0
    /\ log[Len(log)].op = "next_timeout"
    /\ log[Len(log)].iter = 2
    /\ pc = "failed"

(* C9: convergence is reported only when the last reading has every one of *)
(* the five axes within its tolerance.                                     *)
C9_ConvergedOnlyWithin ==
    Converged => Within(offset, tolerance_linear, tolerance_angular)

(* The k-th one-day window counted backward from the reference time *)
WindowStart(k) == time - k * Day
WindowEnd(k) == time - (k - 1) * Day
InWindow(k) == {t \in archive : WindowStart(k) <= t /\ t < WindowEnd(k)}
Newest(S) == CHOOSE t \in S : \A u \in S : u <= t

(* C10: when the most recent sample before the reference time lies in the  *)
(* k-th one-day window counted backward, k within the lookback limit, the  *)
(* locator queries the windows 1..k in that order and no other, and        *)
(* returns the sample of window k with the latest time stamp.              *)
C10_FirstNonEmptyWindow ==
    \A k \in 1..max_lookback_days :
        (InWindow(k) # {} /\ \A j \in 1..(k - 1) : InWindow(j) = {}) =>
            /\ Len(queries) <= k
            /\ \A j \in 1..Len(queries) :
                   queries[j] = <<WindowStart(j), WindowEnd(j)>>
            /\ pc = "loc_done" =>
                   /\ Len(queries) = k
                   /\ result = SampleState(Newest(InWindow(k)))

C10_Witness ==
    /\ pc = "loc_done"
    /\ Len(queries) = 3
    /\ Cardinality(InWindow(3)) = 2
    /\ result = SampleState(Newest(InWindow(3)))

(* The samples of the lookback period [time - max_lookback, time) *)
InLookback ==
    {t \in archive : time - max_lookback_days * Day <= t /\ t < time}

(* C11: when the archive holds no sample inside the lookback period, the   *)
(* locator returns the all-zero state vector of width 50, also when older  *)
(* samples exist.                                                          *)
C11_NoDataGivesZero ==
    (pc = "loc_done" /\ InLookback = {}) => result = ZeroState

(* C12: every window the locator queries starts no earlier than the        *)
(* reference time minus max_lookback.                                      *)
C12_QueriesWithinLookback ==
    \A j \in 1..Len(queries) :
        queries[j][1] >= time - max_lookback_days * Day

ErrKind == IF Len(err) >= 2 THEN err[2] ELSE "none"

(* The run takes its target from the archive: SyncDOF, or SetDOF with day  *)
(* and seq, with a site the archive client can be made for.                *)
LocatedRun ==
    \/ script = "SyncDOF"
    \/ script = "SetDOF" /\ day_seq /\ site \in EFD_SERVER_URL

(* The run has got past the filling of the command, or has ended, and no   *)
(* feasibility check, state read or command of the device has failed.      *)
PastFill ==
    /\ pc \in {"sync_cmd", "done", "failed"}
    /\ ErrKind \notin {"assert_feasibility", "degreeOfFreedom", "offsetDOF"}

(* C13: with a target vector and a current state of equal length, the      *)
(* offsetDOF command that is sent has value[i] = target[i] - current[i]    *)
(* at every index i.                                                       *)
C13_RelativeOffset ==
    (Len(sent) >= 1 /\ dofs.kind = "array" /\ Len(dofs.val) = Len(current_dof)) =>
        /\ Len(sent[1]) = Len(current_dof)
        /\ \A i \in 1..Len(current_dof) : sent[1][i] = dofs.val[i] - current_dof[i]

C13_Witness ==
    /\ Len(sent) = 1
    /\ dofs = Array(Ramp(NDof))
    /\ current_dof = Const(1, NDof)
    /\ sent[1][1] = 0
    /\ sent[1][2] = 1
    /\ sent[1][3] = 2

(* C14: when the target vector and the current state differ in length, no  *)
(* offsetDOF command is sent and the run ends with an error.               *)
C14_MismatchSendsNothing ==
    (dofs.kind = "array" /\ Len(dofs.val) # NDof) =>
        /\ sent = <<>>
        /\ pc # "done"

(* C15: a run that takes its target from the archive, whose feasibility    *)
(* check and archive queries succeed, sends exactly one offsetDOF command, *)
(* after the historical state has been located.                            *)
C15_OneOffsetCommand ==
    (LocatedRun /\ efd_ok /\ PastFill) =>
        /\ Len(sent) = 1
        /\ Len(queries) >= 1

(* C16: when the archive holds no data, the run does not fail and sends    *)
(* one offsetDOF command with value[i] = 0 - current[i] at every index.    *)
C16_ZeroDefaultIsSent ==
    (LocatedRun /\ efd_ok /\ archive = {} /\ PastFill) =>
        /\ ErrKind = "none"
        /\ Len(sent) = 1
        /\ sent[1] = [i \in 1..NDof |-> 0 - current_dof[i]]

(* C17: when the archive query fails, the run ends with the error naming   *)
(* the queried day and seq and sends no offsetDOF command.                 *)
C17_QueryFailureIsFatal ==
    (LocatedRun /\ ~efd_ok /\ PastFill) =>
        /\ pc = "failed"
        /\ ErrKind = "Error querying time for image"
        /\ sent = <<>>

(* C18: the corrections held after a read are the function of the reading *)
(* just read and of the tolerances alone, whatever the iteration and the   *)
(* earlier readings and corrections were, and the move is their negation.  *)
C18_CorrectionsOfCurrentReading ==
    Count("read") >= 1 =>
        /\ corrections = Corrections(offset, tolerance_linear, tolerance_angular)
        /\ pc = "move" => move_args = Negated(corrections)

C18_Witness ==
    /\ Count("read") = 2
    /\ pc = "move"
    /\ offset = OnlyAxis("dX", MaxDev)
    /\ corrections = <<MaxDev * Scale, 0, 0, 0, 0>>

(* C19: the run always ends, converged or failed, and never starts more    *)
(* than max_iter iterations: at most max_iter align commands and at most   *)
(* max_iter hexapod moves.                                                 *)
C19_TerminatesWithinMaxIter ==
    /\ [](Count("align") <= max_iter /\ Count("move") <= max_iter)
    /\ <>(pc \in {"done", "failed"})

C19_Witness ==
    /\ pc = "failed"
    /\ err = ExhaustionErr
    /\ max_iter = MaxIter
    /\ Count("align") = max_iter
    /\ Count("move") = max_iter

(* C20: after a cancellation at a suspension point of the loop nothing     *)
(* more is issued: the cancellation is the last operation of the run, the  *)
(* run has ended with the cancellation and has not converged.              *)
C20_CancellationPropagates ==
    \A i \in 1..Len(log) :
        log[i].op = "cancel" =>
            /\ i = Len(log)
            /\ pc = "failed"
            /\ err[1] = "CancelledError"
            /\ Count("checkpoint_aligned") = 0
            /\ Count("return") = 0

C20_Witness ==
    /\ Len(log) >= 2
    /\ log[Len(log)].op = "cancel"
    /\ log[Len(log)].iter = 2
    /\ log[Len(log) - 1].op = "move"
    /\ pc = "failed"

(* The angular elements are stored unscaled, and are nonzero only when an  *)
(* angular feedback value, unscaled, is beyond the angular tolerance.      *)
AngularUnscaled ==
    /\ corrections[4] = IF Abs(offset.dRX) > tolerance_angular THEN offset.dRX ELSE 0
    /\ corrections[5] \in {0, offset.dRY}
    /\ corrections[5] # 0 => \E a \in Angular : Abs(offset[a]) > tolerance_angular

(* C21, as stated: each linear axis is multiplied by 1e6 before it is      *)
(* compared with the linear tolerance, so the stored linear correction is  *)
(* feedback * 1e6 exactly when abs(feedback * 1e6) exceeds the tolerance;  *)
(* the angular axes are compared and stored unscaled.                      *)
C21_RescaledBeforeTest ==
    pc = "corr_done" =>
        /\ \A i \in 1..3 :
               corrections[i] =
                   IF Abs(offset[AxisOf[i]] * Scale) > tolerance_linear
                   THEN offset[AxisOf[i]] * Scale ELSE 0
        /\ AngularUnscaled

(* C21, amended: each linear axis is compared with the linear tolerance as *)
(* it was read (both in meters) and is multiplied by 1e6 only when stored, *)
(* so the stored linear correction is feedback * 1e6 exactly when          *)
(* abs(feedback) exceeds the tolerance; the angular axes are compared and  *)
(* stored unscaled.                                                        *)
C21_RescaledAfterTest ==
    pc = "corr_done" =>
        /\ \A i \in 1..3 :
               corrections[i] =
                   IF Abs(offset[AxisOf[i]]) > tolerance_linear
                   THEN offset[AxisOf[i]] * Scale ELSE 0
        /\ AngularUnscaled

C21_Witness ==
    /\ pc = "corr_done"
    /\ tolerance_linear > 0
    /\ offset.dX = tolerance_linear
    /\ corrections[1] = 0
    /\ offset.dY = tolerance_linear + 1
    /\ corrections[2] = (tolerance_linear + 1) * Scale
    /\ offset.dRX = tolerance_angular + 1
    /\ corrections[4] = offset.dRX

(* C22: the locator sends no command and changes no state of the script    *)
(* or of the archive, only its own window variables and its result; two    *)
(* calls of the same locator with the same reference time on the same      *)
(* archive issue the same queries in the same order and return the same    *)
(* result.                                                                 *)
C22_LocatorIsPure ==
    /\ [](\A i, j \in 1..Len(calls) :
             calls[i].script = calls[j].script => calls[i] = calls[j])
    /\ [][UNCHANGED locatorFrame]_vars

C22_Witness ==
    /\ Len(calls) = 2
    /\ calls[1].script = "SyncDOF"
    /\ calls[2].script = "SyncDOF"
    /\ Len(calls[2].queries) = 3
    /\ calls[2].result # ZeroState

(* C23: a run of LowerM1M3 calls lower_m1m3 at most once, only after the   *)
(* "Lowering M1M3" checkpoint; a run that ends without error has called it *)
(* exactly once; when the call raises the run has failed and the call is   *)
(* not made again.                                                         *)
C23_LowersOnce ==
    /\ Count("lower_m1m3") <= 1
    /\ \A i \in 1..Len(log) :
           log[i].op = "lower_m1m3" =>
               \E j \in 1..(i - 1) : log[j].op = "checkpoint_lowering"
    /\ pc = "done" => Count("lower_m1m3") = 1 /\ Count("lowered") = 1
    /\ Count("lower_failed") > 0 =>
           /\ pc = "failed"
           /\ err = <<"RuntimeError", "lower_m1m3">>
           /\ log[Len(log)].op = "lower_failed"

C23_Witness ==
    /\ pc = "failed"
    /\ Count("checkpoint_lowering") = 1
    /\ Count("lower_m1m3") = 1
    /\ Count("lower_failed") = 1
    /\ start_time > 0

(* C24: format_as_list of a number or a string returns a list of length    *)
(* recurrences whose elements all equal the value; of a list of length     *)
(* recurrences it returns the list itself; of a list of any other length   *)
(* it raises ValueError.                                                   *)
C24_FormatAsList ==
    pc = "fal_done" =>
        /\ value.kind \in {"scalar", "str"} =>
               /\ returned.kind = "return"
               /\ Len(returned.val) = 1
               /\ returned.val[1].kind = "list"
               /\ Len(returned.val[1].val) = recurrences
               /\ \A i \in 1..recurrences : returned.val[1].val[i] = value
        /\ (value.kind = "list" /\ Len(value.val) = recurrences) =>
               returned = Return(<<value>>)
        /\ (value.kind = "list" /\ Len(value.val) # recurrences) =>
               returned = Raise("ValueError")

C24_Witness ==
    /\ pc = "fal_done"
    /\ value = Str(<<1, 2>>)
    /\ recurrences = 2
    /\ returned = Return(<<List(<<Str(<<1, 2>>), Str(<<1, 2>>)>>)>>)

(* The list format_grid must give for one argument: the argument itself   *)
(* when it is a list, else the scalar repeated n times.                   *)
GridAxis(a, n) ==
    IF a.kind = "list" THEN a
    ELSE List([i \in 1..n |-> a])

(* The common length: one when both arguments are scalars, else the       *)
(* length of an argument that is a list.                                  *)
GridLen ==
    IF axis1.kind = "list" THEN Len(axis1.val)
    ELSE IF axis2.kind = "list" THEN Len(axis2.val)
    ELSE 1

(* C25: format_grid raises RuntimeError exactly when both arguments are    *)
(* lists of different lengths; otherwise it returns two lists of the same  *)
(* length, in the order of the arguments: a list argument as it was given, *)
(* a scalar argument repeated to the length of the other list, or once     *)
(* when both are scalars.                                                  *)
C25_FormatGrid ==
    pc = "fg_done" =>
        LET mismatch == /\ axis1.kind = "list"
                        /\ axis2.kind = "list"
                        /\ Len(axis1.val) # Len(axis2.val)
        IN  /\ mismatch <=> returned.kind = "raise"
            /\ mismatch => returned.exc = "RuntimeError"
            /\ ~mismatch =>
                   /\ Len(returned.val) = 2
                   /\ returned.val[1] = GridAxis(axis1, GridLen)
                   /\ returned.val[2] = GridAxis(axis2, GridLen)
                   /\ Len(returned.val[1].val) = Len(returned.val[2].val)

C25_Witness ==
    /\ pc = "fg_done"
    /\ axis1 = List(<<Scalar(0), Scalar(1), Scalar(0)>>)
    /\ axis2 = Scalar(1)
    /\ returned = Return(<<axis1, List(<<Scalar(1), Scalar(1), Scalar(1)>>)>>)

(* The heartbeats of salIndex k read after the flush *)
HeartbeatsRead(k) ==
    Cardinality({j \in 1..Len(log) : log[j].op = "heartbeat" /\ log[j].iter = k})

(* C26: every index find_running_instances returns is one from which at    *)
(* least min_heartbeat heartbeats were read after the flush.               *)
C26_OnlyRunningReturned ==
    pc = "fri_done" =>
        \A n \in 1..Len(indices) : HeartbeatsRead(indices[n]) >= min_heartbeat

(* The moves issued, in the order of issue *)
Moves == SelectSeq(log, LAMBDA e : e.op = "move")

(* The hexapod of a target *)
HexapodOf(t) == IF t = "M2" THEN "offset_m2_hexapod" ELSE "offset_camera_hexapod"

(* C27: every iteration whose corrections are not all zero issues exactly  *)
(* one move, with the negated corrections of that iteration as arguments,  *)
(* to the hexapod of the configured target and to no other; the iteration  *)
(* that converges issues none, so a run that converges at iteration k has  *)
(* issued k - 1 moves.                                                     *)
C27_OneNegatedMovePerIteration ==
    /\ \A k \in 1..Len(Moves) :
           /\ Moves[k].iter = k
           /\ Moves[k].hexapod = HexapodOf(target)
    /\ Len(Moves) \in {n_iter, n_iter + 1}
    /\ Len(Reads) = Len(Moves) + Count("return")
    /\ pc = "move" =>
           /\ AnyCorrection(corrections)
           /\ Len(Moves) = n_iter + 1
           /\ log[Len(log)].op = "move"
           /\ \A i \in 1..5 : move_args[i] + corrections[i] = 0
    /\ Converged =>
           /\ ~AnyCorrection(corrections)
           /\ Len(Reads) = n_iter + 1
           /\ Len(Moves) = n_iter

C27_Witness ==
    /\ pc = "done"
    /\ target = "M2"
    /\ Count("read") = 2
    /\ Count("move") = 1
    /\ log[Len(log) - 1].op = "return"
    /\ log[Len(log) - 1].iter = 2
    /\ move_args[1] = 0 - MaxDev * Scale

(* The instants of the grid around the lookback period *)
Instants == (time - (max_lookback_days + 2) * Day)..(time + Day)

(* The queries whose window [start, end) holds the instant t *)
QueriesOf(t) == {j \in 1..Len(queries) : queries[j][1] <= t /\ t < queries[j][2]}

(* C28: the first window ends at the reference time, every later window    *)
(* ends where the one before it starts, and every window is one day wide;  *)
(* so after k queries the windows cover [time - k days, time) and no       *)
(* instant lies in two of them.                                            *)
C28_ContiguousWindows ==
    /\ \A j \in 1..Len(queries) :
           /\ queries[j][2] - queries[j][1] = Day
           /\ queries[j][2] = IF j = 1 THEN time ELSE queries[j - 1][1]
    /\ \A t \in Instants :
           /\ Cardinality(QueriesOf(t)) <= 1
           /\ QueriesOf(t) # {} <=> (time - Len(queries) * Day <= t /\ t < time)

C28_Witness ==
    /\ Len(queries) = 3
    /\ queries[3] = <<time - 3 * Day, time - 2 * Day>>
    /\ pc = "loc_done"
    /\ result # ZeroState

(* C29: the "Starting alignment procedure." checkpoint comes after the     *)
(* laser-status check and before the first align command; the "aligned"    *)
(* checkpoint is emitted only after the loop has returned converged, and   *)
(* once the loop has returned nothing but that checkpoint follows; a run   *)
(* that has failed has not emitted it; a run that is done has no error, a  *)
(* failed run has one, and no step leaves done or failed.                  *)
C29_CheckpointsAndTerminalStates ==
    /\ [](/\ \A i \in 1..Len(log) :
                 /\ log[i].op = "checkpoint_start" =>
                        i = 2 /\ log[1].op = "laser_status"
                 /\ log[i].op = "align" =>
                        i > 2 /\ log[2].op = "checkpoint_start"
                 /\ log[i].op = "checkpoint_aligned" =>
                        /\ i > 1
                        /\ log[i - 1].op = "return"
                        /\ i = Len(log)
                 /\ log[i].op = "return" => i >= Len(log) - 1
          /\ pc \in {"checkpoint_aligned", "done"} <=>
                 (\E i \in 1..Len(log) : log[i].op = "return")
          /\ pc = "done" <=>
                 (Len(log) > 0 /\ log[Len(log)].op = "checkpoint_aligned")
          /\ pc = "done" => err = NoErr
          /\ pc = "failed" <=> err # NoErr)
    /\ [][pc \notin {"done", "failed"}]_vars

C29_Witness ==
    /\ pc = "done"
    /\ Count("flush") = 2
    /\ Len(log) > 2
    /\ log[Len(log)].op = "checkpoint_aligned"
    /\ log[1].op = "laser_status"
    /\ log[2].op = "checkpoint_start"

(* C30: called with the same reference time on the same archive, the       *)
(* locator of SetDOF and the locator of SyncDOF return the same state      *)
(* vector.                                                                 *)
C30_LocatorsAgree ==
    \A i, j \in 1..Len(calls) : calls[i].result = calls[j].result

(* C31: the locator issues at most max_lookback / lookback_interval (7)    *)
(* queries for every archive content, the empty archive included, before   *)
(* it returns a sample or the zero state.                                  *)
C31_AtMostSevenQueries ==
    Len(queries) <= max_lookback_days \div lookback_interval_days

(* The heartbeats read from index k before the last one read *)
ReadBeforeLast(k) ==
    HeartbeatsRead(k) - (IF Len(log) > 0 /\ log[Len(log)].iter = k THEN 1 ELSE 0)

C35_SiteCheckedFirst ==
    /\ (/\ script = "SetDOF"
        /\ day_seq
        /\ site \notin EFD_SERVER_URL
        /\ pc \notin {"sync_start", "sync_locate"}) =>
            /\ pc = "failed"
            /\ ErrKind \in {"assert_feasibility", "Unable to connect to EFD"}
            /\ image_end_time = NoValue
            /\ dofs.kind = "array"
            /\ queries = <<>>
            /\ current_dof = <<>>
            /\ sent = <<>>
    /\ (script = "SetDOF" /\ ~day_seq) =>
            /\ image_end_time = NoValue
            /\ queries = <<>>
            /\ \A n \in 1..Len(sent) :
                   sent[n] = RelativeOffset(config.dofs, current_dof)

(* The commands the white-light scripts can send *)
WhiteLightCommands == {"startChiller", "turnLampOn", "turnLampOff"}

(* A run of a white-light script has ended *)
WhiteLightEnded == pc \in {"done", "failed"} /\ HasAttr(attrs, "script_descr_name")

(* C33: in the turn-on script the lamp-on command is issued only when the  *)
(* chiller check immediately before it read RUN; a run on an enabled       *)
(* device makes the first chiller check, and if that check is not RUN it   *)
(* issues startChiller exactly once; a run whose last check is not RUN     *)
(* ends with an error and no lamp-on command.                              *)
C33_LampOnlyWithChillerRunning ==
    /\ \A i \in 1..Len(log) :
           log[i].op = "turnLampOn" =>
               /\ i > 1
               /\ log[i - 1].op = "chillerWatchdog"
               /\ log[i - 1].iter = 2
    /\ Count("startChiller") <= 1
    /\ (/\ WhiteLightEnded
        /\ attrs.script_descr_name = "on"
        /\ remote.summaryState = "ENABLED") =>
            /\ Count("chillerWatchdog") >= 1
            /\ remote.chillerWatchdog # 2 => Count("startChiller") = 1
            /\ Count("turnLampOn") = 0 => err # NoErr

IgnoreList == IF HasAttr(config, "ignore") THEN config.ignore ELSE <<>>

(* The names of the ignore list *)
Ignored == {IgnoreList[k] : k \in 1..Len(IgnoreList)}

(* C36: the step of OfflineGroup.run that calls offline has set the check  *)
(* flag of every component named in the ignore list to False, has left     *)
(* the flag of every other component as it was, has given no flag to a     *)
(* name that is not a component and has logged one warning for each such   *)
(* entry; the call of offline is the last thing it does, after every       *)
(* entry of the list has been handled, and offline is called exactly once  *)
(* in a run, also when there is no ignore list.                            *)
C36_IgnoredBeforeOffline ==
    /\ [][pc = "og_run" =>
             /\ DOMAIN remote'.check = Components
             /\ \A c \in Components :
                    remote'.check[c] = IF c \in Ignored THEN FALSE ELSE remote.check[c]
             /\ Len(log') = Len(IgnoreList) + 1
             /\ log'[Len(log')].op = "offline"
             /\ \A k \in 1..Len(IgnoreList) :
                    /\ log'[k].iter = k
                    /\ log'[k].op =
                           IF IgnoreList[k] \in Components THEN "debug" ELSE "warning"]_vars
    /\ [](/\ Count("offline") = IF pc \in {"og_offline", "done", "failed"} THEN 1 ELSE 0
          /\ \A c \in Components \cap Ignored :
                 Count("offline") = 1 => ~remote.check[c])
    /\ [][(pc \in {"og_offline", "done", "failed"}) => (remote' = remote)]_vars

C36_Witness ==
    /\ pc = "done"
    /\ HasAttr(config, "ignore")
    /\ config.ignore = <<"atdome", "hexapod_1">>
    /\ remote.check = [hexapod_1 |-> FALSE, mtdometrajectory |-> TRUE]
    /\ Len(log) = 3
    /\ log[1].op = "warning"
    /\ log[2].op = "debug"
    /\ log[3].op = "offline"

(* configure has returned without an exception *)
Configured == HasAttr(config, "exp_times") /\ HasAttr(attrs, "exp_times")
                  /\ err # <<"ValueError", "configure">>

(* t >= 0 of a float *)
NonNegative(t) == ~t.nan /\ t.v >= 0

(* C37: after a successful configure of ATCamTakeImage the exposure list   *)
(* is not empty and every exposure time is >= 0: a scalar exp_times gives  *)
(* nimages copies of it and a sequence is taken as given, while            *)
(* nimages < 1 with a scalar, an empty sequence and a negative time raise  *)
(* ValueError; run takes one image per entry, in the order of the list,    *)
(* each after its "exposure i of n" checkpoint, and stops at the first     *)
(* image that fails.                                                       *)
C37_ExposuresValidatedAndTaken ==
    /\ Configured =>
           /\ Len(attrs.exp_times) >= 1
           /\ \A i \in 1..Len(attrs.exp_times) : NonNegative(attrs.exp_times[i])
           /\ IF IsIterable(config.exp_times)
              THEN attrs.exp_times = config.exp_times.val
              ELSE /\ Len(attrs.exp_times) = config.nimages
                   /\ \A i \in 1..config.nimages :
                          attrs.exp_times[i] = config.exp_times.val[1]
    /\ (HasAttr(config, "exp_times") /\ pc # "at_configure") =>
           LET given == config.exp_times.val
               bad == \/ ~IsIterable(config.exp_times) /\ config.nimages < 1
                      \/ given = <<>>
                      \/ \E i \in 1..Len(given) : Less(given[i], Float(0))
           IN  bad => err = <<"ValueError", "configure">>
    /\ Configured =>
           /\ \A k \in 1..Len(log) :
                  /\ log[k].iter = (k + 1) \div 2
                  /\ log[k].op = IF k % 2 = 1 THEN "checkpoint" ELSE "take_image"
                  /\ k % 2 = 1 => log[k].tag = Len(attrs.exp_times)
                  /\ k % 2 = 0 => log[k].tag = attrs.exp_times[k \div 2]
           /\ Count("take_image") <= Len(attrs.exp_times)
           /\ pc = "done" => Count("take_image") = Len(attrs.exp_times)
           /\ pc = "at_next" => Count("take_image") < Len(attrs.exp_times)

====
